---- MODULE Spec2Model ----
(***************************************************************************)
(* Uniform inventory system (inventory_system): the SQLite stock ledger.   *)
(*                                                                         *)
(* The persistent state is the database file inventory.db: the tables      *)
(* employees, items, stock_levels and transactions plus SQLite's           *)
(* sqlite_sequence table behind the AUTOINCREMENT keys.  Every operation   *)
(* of operations.py opens its own connection (db.get_connection) and runs  *)
(* its statements inside "with conn:", i.e. one SQLite transaction that is *)
(* committed when the block ends and rolled back when it raises.  The first*)
(* INSERT of a transaction takes the database write lock; other writers    *)
(* wait in SQLite's busy handler, readers keep seeing the committed file.  *)
(***************************************************************************)
EXTENDS Integers, Sequences, FiniteSets, TLC

(***************************************************************************)
(* Bounds of the model.                                                    *)
(***************************************************************************)
\* Calls of the operations made in a run, CLI commands and web requests
\* served in a run, and seconds the clock advances.
MaxCalls == 2
MaxCommands == 1
MaxTime == 1

\* Concurrent callers, each with a connection of its own.
Procs == {1, 2}

(***************************************************************************)
(* Optional values (Python None / SQL NULL): <<>> is None, <<v>> is v.     *)
(***************************************************************************)
None == <<>>
Some(v) == <<v>>

(***************************************************************************)
(* Input domains of the calls.                                             *)
(***************************************************************************)
ItemNames == {"Shirt"}
Sizes == {"L", "M"}
Categories == {"Summer"}
MinStocks == {0, 20}
EmployeeNames == {"Ann", "Bob"}
Roles == {"lead"}
Badges == {None, Some(""), Some("b1")}
Notes == {""}
\* What a user types: the --quantity of a CLI command, the fields of a form.
Requested == {-5, 5}
FormNames == {"Shirt", " Shirt"}
FormQuantities == {"5", "-5", "", "x"}
FormEmployees == {"", "Ann"}
\* --min-stock (argparse type=int) and the form's min_stock field.
ArgMinStocks == {-1, 20}
FormMinStocks == {"", "-1"}
\* The name argument of add-employee and the form's name and badge fields.
ArgEmployeeNames == {"", "Bob"}
FormEmployeeNames == {" ", "Bob"}
ArgBadges == {None, Some("b1")}
FormBadges == {"", "b1"}
Deltas == {-1, 3}
ItemIds == 1..2
EmployeeIds == {None, Some(1)}

\* The filters of search_transactions: none, a part of a name, and a
\* character that LIKE reads as a wildcard.
NameFilters == {None, Some("hir"), Some("_")}
EmployeeFilters == {None, Some("An")}

TRANSACTION_TYPES == {"stock_in", "issue", "return", "adjust"}
\* The ttype of a call: a known type and a string that is none.
TypeInputs == {"issue", "bogus"}

(***************************************************************************)
(* The database: SCHEMA_STATEMENTS.  Tables are sets of rows.              *)
(***************************************************************************)
EmptyDB ==
  [employees |-> {}, items |-> {}, stock_levels |-> {}, transactions |-> {},
   sqlite_sequence |-> [employees |-> 0, items |-> 0, transactions |-> 0]]

\* A database an earlier run of the program left in inventory.db:
\* add_item("Shirt","L","Summer",20); add_employee("Ann","","b1");
\* log_transaction(item_id=1, quantity=10, ttype="stock_in").
StockedDB ==
  [employees |-> {[id |-> 1, name |-> "Ann", role |-> "", badge |-> Some("b1")]},
   items |-> {[id |-> 1, name |-> "Shirt", size |-> "L", category |-> "Summer",
               min_stock |-> 20]},
   stock_levels |-> {[item_id |-> 1, quantity |-> 10]},
   transactions |-> {[id |-> 1, item_id |-> 1, employee_id |-> None,
                      type |-> "stock_in", quantity |-> 10, note |-> "",
                      created_at |-> 0]},
   sqlite_sequence |-> [employees |-> 1, items |-> 1, transactions |-> 1]]

VARIABLES
  db,     \* the committed content of inventory.db
  lock,   \* the connections holding SQLite's write lock (at most one)
  tx,     \* tx[p]: the database as p's open transaction sees it
  pc,     \* pc[p]: where p is in its call
  call,   \* call[p]: the operation p runs and its arguments
  ret,    \* ret[p]: the row the call's RETURNING clause produced
  err,    \* err[p]: the exception the call raised, "" if none
  now,    \* CURRENT_TIMESTAMP
  calls,  \* number of calls and commands made so far
  frame   \* frame[p]: the CLI command or web request p is serving, if any

vars == <<db, lock, tx, pc, call, ret, err, now, calls, frame>>

NoCall == [op |-> "none"]

Init ==
  /\ db \in {EmptyDB, StockedDB}
  /\ lock = {}
  /\ tx = [p \in Procs |-> EmptyDB]
  /\ pc = [p \in Procs |-> "idle"]
  /\ call = [p \in Procs |-> NoCall]
  /\ ret = [p \in Procs |-> None]
  /\ err = [p \in Procs |-> ""]
  /\ now = 0
  /\ calls = 0
  /\ frame = [p \in Procs |-> NoCall]

(***************************************************************************)
(* SQL statements of operations.py as functions of a database d.           *)
(***************************************************************************)

\* AUTOINCREMENT: SQLite draws the next rowid from sqlite_sequence before it
\* looks for a conflict, so an upsert that ends in DO UPDATE still uses one up.
NextId(d, table) == d.sqlite_sequence[table] + 1

BumpSequence(d, table) ==
  [d.sqlite_sequence EXCEPT ![table] = NextId(d, table)]

\* (variant: badge without UNIQUE, nothing conflicts)
BadgeConflictNever(d, badge) == {}

\* badge TEXT UNIQUE: a NULL badge never conflicts, any other value does.
BadgeConflict(d, badge) ==
  {e \in d.employees : badge # None /\ e.badge = badge}

\* INSERT INTO employees ... ON CONFLICT(badge) DO UPDATE SET name, role
UpsertEmployee(d, name, role, badge) ==
  IF BadgeConflict(d, badge) # {}
    THEN [d EXCEPT
            !.employees = {IF e \in BadgeConflict(d, badge)
                             THEN [e EXCEPT !.name = name, !.role = role]
                             ELSE e : e \in d.employees},
            !.sqlite_sequence = BumpSequence(d, "employees")]
    ELSE [d EXCEPT
            !.employees = d.employees \cup
               {[id |-> NextId(d, "employees"), name |-> name, role |-> role,
                 badge |-> badge]},
            !.sqlite_sequence = BumpSequence(d, "employees")]

\* ... RETURNING id, name, role, badge
ReturningEmployee(d, name, role, badge) ==
  IF BadgeConflict(d, badge) # {}
    THEN [(CHOOSE e \in BadgeConflict(d, badge) : TRUE)
            EXCEPT !.name = name, !.role = role]
    ELSE [id |-> NextId(d, "employees"), name |-> name, role |-> role,
          badge |-> badge]

\* UNIQUE(name, size, category)
ItemConflict(d, name, size, category) ==
  {i \in d.items : i.name = name /\ i.size = size /\ i.category = category}

\* (variant: INSERT OR REPLACE, the conflicting row gives way to a new one)
UpsertItemReplace(d, name, size, category, min_stock) ==
  [d EXCEPT
     !.items = (d.items \ ItemConflict(d, name, size, category)) \cup
        {[id |-> NextId(d, "items"), name |-> name, size |-> size,
          category |-> category, min_stock |-> min_stock]},
     !.sqlite_sequence = BumpSequence(d, "items")]

\* INSERT INTO items ... ON CONFLICT(name, size, category) DO UPDATE SET min_stock
UpsertItem(d, name, size, category, min_stock) ==
  IF ItemConflict(d, name, size, category) # {}
    THEN [d EXCEPT
            !.items = {IF i \in ItemConflict(d, name, size, category)
                         THEN [i EXCEPT !.min_stock = min_stock]
                         ELSE i : i \in d.items},
            !.sqlite_sequence = BumpSequence(d, "items")]
    ELSE [d EXCEPT
            !.items = d.items \cup
               {[id |-> NextId(d, "items"), name |-> name, size |-> size,
                 category |-> category, min_stock |-> min_stock]},
            !.sqlite_sequence = BumpSequence(d, "items")]

\* ... RETURNING id, name, size, category, min_stock
ReturningItem(d, name, size, category, min_stock) ==
  IF ItemConflict(d, name, size, category) # {}
    THEN [(CHOOSE i \in ItemConflict(d, name, size, category) : TRUE)
            EXCEPT !.min_stock = min_stock]
    ELSE [id |-> NextId(d, "items"), name |-> name, size |-> size,
          category |-> category, min_stock |-> min_stock]

\* (variant: the INSERT has no ON CONFLICT and the table no key)
EnsureStockLevelNoConflict(d, item_id) ==
  [d EXCEPT !.stock_levels =
     d.stock_levels \cup {[item_id |-> item_id, quantity |-> 0]}]

\* INSERT INTO stock_levels (item_id, quantity) VALUES (?, 0)
\* ON CONFLICT(item_id) DO NOTHING
EnsureStockLevel(d, item_id) ==
  IF \E s \in d.stock_levels : s.item_id = item_id
    THEN d
    ELSE [d EXCEPT !.stock_levels =
            d.stock_levels \cup {[item_id |-> item_id, quantity |-> 0]}]

\* (variant: SET quantity = ?, the delta overwrites the level)
AddToStockLevelOverwrite(d, item_id, quantity) ==
  [d EXCEPT !.stock_levels =
     {IF s.item_id = item_id
        THEN [s EXCEPT !.quantity = quantity]
        ELSE s : s \in d.stock_levels}]

\* (variant: the level is kept from going below zero)
AddToStockLevelClamped(d, item_id, quantity) ==
  [d EXCEPT !.stock_levels =
     {IF s.item_id = item_id
        THEN [s EXCEPT !.quantity =
                IF s.quantity + quantity < 0 THEN 0 ELSE s.quantity + quantity]
        ELSE s : s \in d.stock_levels}]

\* UPDATE stock_levels SET quantity = quantity + ? WHERE item_id = ?
AddToStockLevel(d, item_id, quantity) ==
  [d EXCEPT !.stock_levels =
     {IF s.item_id = item_id
        THEN [s EXCEPT !.quantity = s.quantity + quantity]
        ELSE s : s \in d.stock_levels}]

\* (variant: the connection lacks PRAGMA foreign_keys = ON)
ForeignKeysOff(d, item_id, employee_id) == TRUE

\* (variant: only the item reference is checked)
ForeignKeysItemOnly(d, item_id, employee_id) ==
  \E i \in d.items : i.id = item_id

\* PRAGMA foreign_keys = ON with the two FOREIGN KEY clauses of transactions:
\* item_id must be the id of an item, employee_id is NULL or an employee's id.
ForeignKeysHold(d, item_id, employee_id) ==
  /\ \E i \in d.items : i.id = item_id
  /\ employee_id # None => \E e \in d.employees : e.id = employee_id[1]

\* The row INSERT INTO transactions ... RETURNING yields; created_at is
\* CURRENT_TIMESTAMP.
NewTransaction(d, item_id, employee_id, ttype, quantity, note, time) ==
  [id |-> NextId(d, "transactions"), item_id |-> item_id,
   employee_id |-> employee_id, type |-> ttype, quantity |-> quantity,
   note |-> note, created_at |-> time]

InsertTransaction(d, item_id, employee_id, ttype, quantity, note, time) ==
  [d EXCEPT
     !.transactions = d.transactions \cup
        {NewTransaction(d, item_id, employee_id, ttype, quantity, note, time)},
     !.sqlite_sequence = BumpSequence(d, "transactions")]

(***************************************************************************)
(* Queries.                                                                *)
(***************************************************************************)

\* (variant: a quantity equal to the threshold is flagged too)
get_status_rowsAtThreshold(d) ==
  LET joined(i) == {s \in d.stock_levels : s.item_id = i.id}
      row(i, quantity) ==
        [id |-> i.id, name |-> i.name, size |-> i.size,
         category |-> i.category, quantity |-> quantity,
         min_stock |-> i.min_stock,
         alert |-> quantity # None /\ quantity[1] <= i.min_stock]
  IN UNION {IF joined(i) = {}
              THEN {row(i, None)}
              ELSE {row(i, Some(s.quantity)) : s \in joined(i)}
            : i \in d.items}

\* get_status_rows: items LEFT JOIN stock_levels.  An item without a
\* stock_levels row yields one row whose quantity is NULL, and a comparison
\* with NULL is not true.
get_status_rows(d) ==
  LET joined(i) == {s \in d.stock_levels : s.item_id = i.id}
      row(i, quantity) ==
        [id |-> i.id, name |-> i.name, size |-> i.size,
         category |-> i.category, quantity |-> quantity,
         min_stock |-> i.min_stock,
         alert |-> quantity # None /\ quantity[1] < i.min_stock]
  IN UNION {IF joined(i) = {}
              THEN {row(i, None)}
              ELSE {row(i, Some(s.quantity)) : s \in joined(i)}
            : i \in d.items}

\* The characters of the strings that names and filters are made of.
Chars(s) ==
  CASE s = "" -> <<>>
    [] s = "Shirt" -> <<"S", "h", "i", "r", "t">>
    [] s = "Ann" -> <<"A", "n", "n">>
    [] s = "Bob" -> <<"B", "o", "b">>
    [] s = "hir" -> <<"h", "i", "r">>
    [] s = "An" -> <<"A", "n">>
    [] s = "_" -> <<"_">>

\* LIKE compares ASCII letters without regard to case.
lower(c) ==
  CASE c = "S" -> "s" [] c = "A" -> "a" [] c = "B" -> "b" [] OTHER -> c

\* text LIKE pattern: % stands for any run of characters, _ for any one.
RECURSIVE Like(_, _)
Like(pattern, text) ==
  IF pattern = <<>> THEN text = <<>>
  ELSE IF Head(pattern) = "%"
    THEN \/ Like(Tail(pattern), text)
         \/ text # <<>> /\ Like(pattern, Tail(text))
  ELSE /\ text # <<>>
       /\ Head(pattern) = "_" \/ lower(Head(pattern)) = lower(Head(text))
       /\ Like(Tail(pattern), Tail(text))

\* f"%{name}%"
LikePattern(filter) == <<"%">> \o Chars(filter) \o <<"%">>

\* TRANSACTION_LABELS.get(type, type): the label of a known type (here its
\* key in the table), the type itself otherwise.
TRANSACTION_LABELS(type) ==
  IF type \in TRANSACTION_TYPES THEN <<"label", type>> ELSE type

\* The rows search_transactions selects: transactions JOIN items LEFT JOIN
\* employees, with the LIKE conditions of the filters that are given and
\* not empty ("if name:").  A transaction without employee has e.name NULL,
\* which no LIKE matches, and COALESCE(e.name, '') as its employee.
SearchRows(d, name, employee) ==
  LET joined == {<<t, i, {e \in d.employees : Some(e.id) = t.employee_id}>> :
                   t \in d.transactions,
                   i \in d.items}
      on == {j \in joined : j[2].id = j[1].item_id}
      rows == UNION {IF j[3] = {} THEN {<<j[1], j[2], None>>}
                     ELSE {<<j[1], j[2], Some(e.name)>> : e \in j[3]}
                     : j \in on}
      where == {r \in rows :
                  /\ (name # None /\ name # Some("")) =>
                       Like(LikePattern(name[1]), Chars(r[2].name))
                  /\ (employee # None /\ employee # Some("")) =>
                       /\ r[3] # None
                       /\ Like(LikePattern(employee[1]), Chars(r[3][1]))}
  IN {[id |-> r[1].id, name |-> r[2].name, size |-> r[2].size,
       category |-> r[2].category,
       employee |-> IF r[3] = None THEN "" ELSE r[3][1],
       type |-> r[1].type, quantity |-> r[1].quantity, note |-> r[1].note,
       created_at |-> r[1].created_at,
       type_label |-> TRANSACTION_LABELS(r[1].type)] : r \in where}

\* Every way of listing the rows of a set once each.
RECURSIVE Listings(_)
Listings(rows) ==
  IF rows = {} THEN {<<>>}
  ELSE UNION {{<<r>> \o l : l \in Listings(rows \ {r})} : r \in rows}

\* ORDER BY t.created_at DESC: the order of rows with equal created_at is
\* whatever the query plan gives.
OrderByCreatedAtDesc(l) ==
  \A m, n \in 1..Len(l) : m < n => l[m].created_at >= l[n].created_at

\* search_transactions: the lists it may return.
search_transactions(d, name, employee) ==
  {l \in Listings(SearchRows(d, name, employee)) : OrderByCreatedAtDesc(l)}

(***************************************************************************)
(* Connections.  A process that has run its first INSERT holds the write   *)
(* lock and works on tx[p]; db is the committed file, which is all that    *)
(* other connections see.                                                  *)
(***************************************************************************)

\* (variant: writers do not exclude each other)
CanBeginWriteUnlocked(p) == TRUE

\* The first write statement of a deferred transaction needs the RESERVED
\* lock; while another connection holds it the busy handler waits.
CanBeginWrite(p) == lock = {}

\* (variant: the exit commits whatever happened)
ExitConnectionCommits(p, raised) == tx[p]

\* Connection.__exit__ ("with conn:"): commit when the block ended normally,
\* roll back when it raised.
ExitConnection(p, raised) == IF raised THEN db ELSE tx[p]

\* (variant: a SELECT sees what the holder of the write lock has written so
\* far, as under read_uncommitted on a shared cache)
ReadViewUncommitted(p) ==
  IF lock = {} THEN db ELSE tx[CHOOSE q \in lock : TRUE]

\* What a SELECT on a connection of its own reads: the committed file.  The
\* statements of another connection's open transaction are in that
\* connection's cache and journal until its commit.
ReadView(p) == db

\* (variant: the exit writes the connection's working copy to the file)
ExitQueryWrites(p) == tx[p]

\* Connection.__exit__ of a connection that ran nothing but a SELECT: it has
\* no open transaction and its commit() writes nothing.
ExitQuery(p) == db

\* Positions at which p has an open write transaction.
InTransaction == {"ai_stock", "lt_ensure", "lt_update", "commit"}

\* A caller enters an operation with its arguments: get_connection() opens
\* the connection the operation's statements will run on.
\* A process makes one call at a time, so a call starts from "idle".
Enter(p, c) ==
  /\ pc[p] = "idle"
  /\ calls < MaxCalls
  /\ calls' = calls + 1
  /\ call' = [call EXCEPT ![p] = c]
  /\ pc' = [pc EXCEPT ![p] = c.op]
  /\ UNCHANGED <<db, lock, tx, ret, err, now, frame>>

CallAddItem(p) ==
  \E name \in ItemNames, size \in Sizes, category \in Categories,
     min_stock \in MinStocks :
    /\ pc[p] = "idle"
    /\ Enter(p, [op |-> "add_item", name |-> name, size |-> size,
              category |-> category, min_stock |-> min_stock])

CallAddEmployee(p) ==
  \E name \in EmployeeNames, role \in Roles, badge \in Badges :
    /\ pc[p] = "idle"
    /\ Enter(p, [op |-> "add_employee", name |-> name, role |-> role,
              badge |-> badge])

CallLogTransaction(p) ==
  \E item_id \in ItemIds, employee_id \in EmployeeIds, ttype \in TypeInputs,
     quantity \in Deltas, note \in Notes :
    /\ pc[p] = "idle"
    /\ Enter(p, [op |-> "log_transaction", item_id |-> item_id,
              employee_id |-> employee_id, ttype |-> ttype,
              quantity |-> quantity, note |-> note])

\* add_item: the upsert of the items row; row = cur.fetchone().
AddItemUpsert(p) ==
  /\ pc[p] = "add_item"
  /\ CanBeginWrite(p)
  /\ lock' = {p}
  /\ LET c == call[p] IN
       /\ tx' = [tx EXCEPT ![p] =
                   UpsertItem(db, c.name, c.size, c.category, c.min_stock)]
       /\ ret' = [ret EXCEPT ![p] =
                   Some(ReturningItem(db, c.name, c.size, c.category,
                                      c.min_stock))]
  /\ pc' = [pc EXCEPT ![p] = "ai_stock"]
  /\ UNCHANGED <<db, call, err, now, calls, frame>>

\* add_item: the stock_levels row for row["id"].
AddItemStock(p) ==
  /\ pc[p] = "ai_stock"
  /\ tx' = [tx EXCEPT ![p] = EnsureStockLevel(tx[p], ret[p][1].id)]
  /\ pc' = [pc EXCEPT ![p] = "commit"]
  /\ UNCHANGED <<db, lock, call, ret, err, now, calls, frame>>

\* add_employee: its single statement.
AddEmployeeUpsert(p) ==
  /\ pc[p] = "add_employee"
  /\ CanBeginWrite(p)
  /\ lock' = {p}
  /\ LET c == call[p] IN
       /\ tx' = [tx EXCEPT ![p] = UpsertEmployee(db, c.name, c.role, c.badge)]
       /\ ret' = [ret EXCEPT ![p] =
                   Some(ReturningEmployee(db, c.name, c.role, c.badge))]
  /\ pc' = [pc EXCEPT ![p] = "commit"]
  /\ UNCHANGED <<db, call, err, now, calls, frame>>

\* log_transaction: INSERT INTO transactions.  A violated foreign key makes
\* the statement raise sqlite3.IntegrityError before anything is written; the
\* exception leaves the with block.
LogTransactionInsert(p) ==
  /\ pc[p] = "log_transaction"
  /\ CanBeginWrite(p)
  /\ LET c == call[p] IN
       IF ForeignKeysHold(db, c.item_id, c.employee_id)
         THEN /\ lock' = {p}
              /\ tx' = [tx EXCEPT ![p] =
                   InsertTransaction(db, c.item_id, c.employee_id, c.ttype,
                                     c.quantity, c.note, now)]
              /\ ret' = [ret EXCEPT ![p] =
                   Some(NewTransaction(db, c.item_id, c.employee_id, c.ttype,
                                       c.quantity, c.note, now))]
              /\ pc' = [pc EXCEPT ![p] = "lt_ensure"]
              /\ UNCHANGED <<db, err>>
         ELSE /\ err' = [err EXCEPT ![p] = "IntegrityError"]
              /\ pc' = [pc EXCEPT ![p] = "raised"]
              /\ UNCHANGED <<db, lock, tx, ret>>
  /\ UNCHANGED <<call, now, calls, frame>>

\* log_transaction: the defensive INSERT INTO stock_levels.
LogTransactionEnsure(p) ==
  /\ pc[p] = "lt_ensure"
  /\ tx' = [tx EXCEPT ![p] = EnsureStockLevel(tx[p], call[p].item_id)]
  /\ pc' = [pc EXCEPT ![p] = "lt_update"]
  /\ UNCHANGED <<db, lock, call, ret, err, now, calls, frame>>

\* log_transaction: UPDATE stock_levels SET quantity = quantity + ?.
LogTransactionUpdate(p) ==
  /\ pc[p] = "lt_update"
  /\ tx' = [tx EXCEPT ![p] =
              AddToStockLevel(tx[p], call[p].item_id, call[p].quantity)]
  /\ pc' = [pc EXCEPT ![p] = "commit"]
  /\ UNCHANGED <<db, lock, call, ret, err, now, calls, frame>>

\* The with block ends normally: commit.
Commit(p) ==
  /\ pc[p] = "commit"
  /\ db' = ExitConnection(p, FALSE)
  /\ lock' = lock \ {p}
  /\ tx' = [tx EXCEPT ![p] = EmptyDB]
  /\ pc' = [pc EXCEPT ![p] = "returned"]
  /\ UNCHANGED <<call, ret, err, now, calls, frame>>

\* The call fails part-way through its transaction: a statement raises (disk
\* full, I/O error, interrupt), which the with block answers by a rollback,
\* or the process dies and SQLite rolls the journal back.
Fail(p) ==
  /\ pc[p] \in InTransaction
  /\ db' = ExitConnection(p, TRUE)
  /\ lock' = lock \ {p}
  /\ tx' = [tx EXCEPT ![p] = EmptyDB]
  /\ err' = [err EXCEPT ![p] = "OperationalError"]
  /\ pc' = [pc EXCEPT ![p] = "raised"]
  /\ UNCHANGED <<call, ret, now, calls, frame>>

\* The caller has its result (or exception) and is ready for another call.
Return(p) ==
  /\ pc[p] \in {"returned", "raised"}
  /\ pc' = [pc EXCEPT ![p] = "idle"]
  /\ call' = [call EXCEPT ![p] = NoCall]
  /\ ret' = [ret EXCEPT ![p] = None]
  /\ err' = [err EXCEPT ![p] = ""]
  /\ UNCHANGED <<db, lock, tx, now, calls, frame>>

\* (variant: the schema is dropped and created anew)
init_dbRecreate(d) == EmptyDB

\* init_db: CREATE TABLE IF NOT EXISTS for each of SCHEMA_STATEMENTS.  A
\* table that exists is left as it is, with its rows.
init_db(d) ==
  [table \in DOMAIN EmptyDB |->
     IF table \in DOMAIN d THEN d[table] ELSE EmptyDB[table]]

\* init_db is run again on the database in use: cli.main does so for every
\* command, create_app for every application.
CallInitDb(p) ==
  /\ pc[p] = "idle"
  /\ Enter(p, [op |-> "init_db"])

\* Its statements write nothing when the tables exist and do not wait for
\* the write lock.
InitDb(p) ==
  /\ pc[p] = "init_db"
  /\ db' = init_db(db)
  /\ pc' = [pc EXCEPT ![p] = "returned"]
  /\ UNCHANGED <<lock, tx, call, ret, err, now, calls, frame>>

CallGetStatusRows(p) ==
  /\ pc[p] = "idle"
  /\ Enter(p, [op |-> "get_status_rows"])

CallSearchTransactions(p) ==
  \E name \in NameFilters, employee \in EmployeeFilters :
    /\ pc[p] = "idle"
    /\ Enter(p, [op |-> "search_transactions", name |-> name,
              employee |-> employee])

\* get_status_rows: its SELECT reads the committed file, whoever holds the
\* write lock; the rows are returned.
GetStatusRows(p) ==
  /\ pc[p] = "get_status_rows"
  /\ ret' = [ret EXCEPT ![p] = Some(get_status_rows(ReadView(p)))]
  /\ db' = ExitQuery(p)
  /\ pc' = [pc EXCEPT ![p] = "returned"]
  /\ UNCHANGED <<lock, tx, call, err, now, calls, frame>>

\* search_transactions: likewise, with the filters of the call.
SearchTransactions(p) ==
  /\ pc[p] = "search_transactions"
  /\ \E l \in search_transactions(ReadView(p), call[p].name,
                                  call[p].employee) :
       ret' = [ret EXCEPT ![p] = Some(l)]
  /\ db' = ExitQuery(p)
  /\ pc' = [pc EXCEPT ![p] = "returned"]
  /\ UNCHANGED <<lock, tx, call, err, now, calls, frame>>

\* Time passes: CURRENT_TIMESTAMP has a resolution of one second.
Tick ==
  /\ now < MaxTime
  /\ now' = now + 1
  /\ UNCHANGED <<db, lock, tx, pc, call, ret, err, calls, frame>>

(***************************************************************************)
(* The adapters: cli.main and the routes of web.create_app.  A command     *)
(* resolves the names it was given (ensure_item, get_employee), each on a  *)
(* connection of its own, and then calls log_transaction.  Both adapters   *)
(* run init_db first, which creates no table that already exists.          *)
(***************************************************************************)

abs(q) == IF q < 0 THEN -q ELSE q

\* int(s) of the form's quantity field, for the strings a form may carry;
\* a string that is no number ("x") makes int raise ValueError.
IsInt(s) == s \in {"5", "-5", "-1"}

int(s) == CASE s = "5" -> 5 [] s = "-5" -> -5 [] s = "-1" -> -1

\* str.strip of a form field.
strip(s) == CASE s = " Shirt" -> "Shirt" [] s = " " -> "" [] OTHER -> s

\* The quantity cli.main passes to log_transaction for each command.
CliQuantity(command, quantity) ==
  CASE command = "stock_in" -> quantity
    [] command = "issue" -> -abs(quantity)
    [] command = "return" -> abs(quantity)
    [] command = "adjust" -> quantity

\* The signed_quantity lambdas of the four web routes.
signed_quantity(ttype, q) ==
  CASE ttype = "stock_in" -> abs(q)
    [] ttype = "issue" -> -abs(q)
    [] ttype = "return" -> abs(q)
    [] ttype = "adjust" -> q

\* (variant: the item is looked up by its name alone)
SelectItemsByName(d, name, size, category) ==
  {i \in d.items : i.name = name}

\* SELECT * FROM items WHERE name = ? AND size = ? AND category = ?
SelectItems(d, name, size, category) ==
  {i \in d.items : i.name = name /\ i.size = size /\ i.category = category}

\* SELECT * FROM employees WHERE name = ?
SelectEmployees(d, name) == {e \in d.employees : e.name = name}

StartCommand(p, f) ==
  /\ pc[p] = "idle"
  /\ calls < MaxCommands
  /\ calls' = calls + 1
  /\ frame' = [frame EXCEPT ![p] = f]
  /\ UNCHANGED <<db, lock, tx, call, ret, now>>

\* cli.main for stock-in, issue, return and adjust.  --to / --from are
\* required for issue and return and do not exist for the other two.
CliCommand(p) ==
  \E command \in TRANSACTION_TYPES, name \in ItemNames, size \in Sizes,
     category \in Categories, quantity \in Requested, note \in Notes :
  \E who \in IF command \in {"issue", "return"} THEN EmployeeNames ELSE {""} :
    /\ StartCommand(p,
         [via |-> "cli", ttype |-> command, name |-> name, size |-> size,
          category |-> category, requested |-> quantity,
          quantity |-> CliQuantity(command, quantity), employee |-> who,
          note |-> note, item_id |-> 0, employee_id |-> None])
    /\ pc' = [pc EXCEPT ![p] = "ensure_item"]
    /\ UNCHANGED err

\* web._transaction_action.wrapper for the routes /stock-in, /issue, /return
\* and /adjust: int(form.get("quantity", "0") or 0) comes first.
WebTransaction(p) ==
  \E ttype \in TRANSACTION_TYPES, name \in FormNames, size \in Sizes,
     category \in Categories,
     quantity \in {s \in FormQuantities : s = "" \/ IsInt(s)},
     note \in Notes, employee \in FormEmployees :
    LET q == IF quantity = "" THEN 0 ELSE int(quantity) IN
      /\ StartCommand(p,
           [via |-> "web", ttype |-> ttype, name |-> strip(name),
            size |-> strip(size), category |-> strip(category),
            requested |-> q, quantity |-> signed_quantity(ttype, q),
            employee |-> employee, note |-> strip(note),
            item_id |-> 0, employee_id |-> None])
      /\ pc' = [pc EXCEPT ![p] = "ensure_item"]
      /\ UNCHANGED err

\* The same routes when the quantity field is no number: int raises
\* ValueError, which _handle_action turns into an error message.
WebBadQuantity(p) ==
  \E ttype \in TRANSACTION_TYPES,
     quantity \in {s \in FormQuantities : s # "" /\ ~IsInt(s)} :
    /\ StartCommand(p, [via |-> "web", ttype |-> ttype, employee |-> ""])
    /\ pc' = [pc EXCEPT ![p] = "raised"]
    /\ err' = [err EXCEPT ![p] = "ValueError"]

\* ensure_item: the item's row, or ValueError when there is none.
EnsureItem(p) ==
  /\ pc[p] = "ensure_item"
  /\ LET f == frame[p]
         rows == SelectItems(db, f.name, f.size, f.category)
     IN IF rows = {}
          THEN /\ err' = [err EXCEPT ![p] = "ValueError"]
               /\ pc' = [pc EXCEPT ![p] = "raised"]
               /\ UNCHANGED frame
          ELSE /\ \E row \in rows :
                    frame' = [frame EXCEPT ![p].item_id = row.id]
               /\ pc' = [pc EXCEPT ![p] =
                    IF f.employee # "" THEN "get_employee" ELSE "call_log"]
               /\ UNCHANGED err
  /\ UNCHANGED <<db, lock, tx, call, ret, now, calls>>

\* get_employee: cur.fetchone() of the employees with that name (the query
\* has no ORDER BY: any of them), or ValueError when there is none.
GetEmployee(p) ==
  /\ pc[p] = "get_employee"
  /\ LET f == frame[p]
         rows == SelectEmployees(db, IF f.via = "web" THEN strip(f.employee)
                                     ELSE f.employee)
     IN IF rows = {}
          THEN /\ err' = [err EXCEPT ![p] = "ValueError"]
               /\ pc' = [pc EXCEPT ![p] = "raised"]
               /\ UNCHANGED frame
          ELSE /\ \E row \in rows :
                    frame' = [frame EXCEPT ![p].employee_id = Some(row.id)]
               /\ pc' = [pc EXCEPT ![p] = "call_log"]
               /\ UNCHANGED err
  /\ UNCHANGED <<db, lock, tx, call, ret, now, calls>>

\* The adapter's call of log_transaction.
AdapterLogTransaction(p) ==
  /\ pc[p] = "call_log"
  /\ LET f == frame[p] IN
       call' = [call EXCEPT ![p] =
                  [op |-> "log_transaction", item_id |-> f.item_id,
                   employee_id |-> f.employee_id, ttype |-> f.ttype,
                   quantity |-> f.quantity, note |-> f.note]]
  /\ pc' = [pc EXCEPT ![p] = "log_transaction"]
  /\ UNCHANGED <<db, lock, tx, ret, err, now, calls, frame>>

\* cli.main for add-item: the arguments go to add_item as parsed.
CliAddItem(p) ==
  \E name \in ItemNames, size \in Sizes, category \in Categories,
     min_stock \in ArgMinStocks :
    /\ StartCommand(p,
         [via |-> "cli", ttype |-> "add-item", name |-> name, size |-> size,
          category |-> category, min_stock |-> min_stock])
    /\ pc' = [pc EXCEPT ![p] = "call_add_item"]
    /\ UNCHANGED err

\* web.add_item_route: int(form.get("min_stock", "0") or 0), fields stripped.
WebAddItem(p) ==
  \E name \in FormNames, size \in Sizes, category \in Categories,
     min_stock \in FormMinStocks :
    /\ StartCommand(p,
         [via |-> "web", ttype |-> "add-item", name |-> strip(name),
          size |-> strip(size), category |-> strip(category),
          min_stock |-> IF min_stock = "" THEN 0 ELSE int(min_stock)])
    /\ pc' = [pc EXCEPT ![p] = "call_add_item"]
    /\ UNCHANGED err

\* The adapter's call of add_item.
AdapterAddItem(p) ==
  /\ pc[p] = "call_add_item"
  /\ LET f == frame[p] IN
       call' = [call EXCEPT ![p] =
                  [op |-> "add_item", name |-> f.name, size |-> f.size,
                   category |-> f.category, min_stock |-> f.min_stock]]
  /\ pc' = [pc EXCEPT ![p] = "add_item"]
  /\ UNCHANGED <<db, lock, tx, ret, err, now, calls, frame>>

\* cli.main for add-employee: --badge defaults to None.
CliAddEmployee(p) ==
  \E name \in ArgEmployeeNames, role \in Roles, badge \in ArgBadges :
    /\ StartCommand(p,
         [via |-> "cli", ttype |-> "add-employee", name |-> name,
          role |-> role, badge |-> badge])
    /\ pc' = [pc EXCEPT ![p] = "call_add_employee"]
    /\ UNCHANGED err

\* web.add_employee_route: name and role stripped, form.get("badge") or None.
WebAddEmployee(p) ==
  \E name \in FormEmployeeNames, role \in Roles, badge \in FormBadges :
    /\ StartCommand(p,
         [via |-> "web", ttype |-> "add-employee", name |-> strip(name),
          role |-> strip(role),
          badge |-> IF badge = "" THEN None ELSE Some(badge)])
    /\ pc' = [pc EXCEPT ![p] = "call_add_employee"]
    /\ UNCHANGED err

\* The adapter's call of add_employee.
AdapterAddEmployee(p) ==
  /\ pc[p] = "call_add_employee"
  /\ LET f == frame[p] IN
       call' = [call EXCEPT ![p] =
                  [op |-> "add_employee", name |-> f.name, role |-> f.role,
                   badge |-> f.badge]]
  /\ pc' = [pc EXCEPT ![p] = "add_employee"]
  /\ UNCHANGED <<db, lock, tx, ret, err, now, calls, frame>>

Next ==
  \/ \E p \in Procs : CallAddItem(p)
  \/ \E p \in Procs : CallAddEmployee(p)
  \/ \E p \in Procs : CallLogTransaction(p)
  \/ \E p \in Procs : CallInitDb(p)
  \/ \E p \in Procs : InitDb(p)
  \/ \E p \in Procs : AddItemUpsert(p)
  \/ \E p \in Procs : AddItemStock(p)
  \/ \E p \in Procs : AddEmployeeUpsert(p)
  \/ \E p \in Procs : LogTransactionInsert(p)
  \/ \E p \in Procs : LogTransactionEnsure(p)
  \/ \E p \in Procs : LogTransactionUpdate(p)
  \/ \E p \in Procs : Commit(p)
  \/ \E p \in Procs : Fail(p)
  \/ \E p \in Procs : Return(p)
  \/ Tick

Spec == Init /\ [][Next]_vars

\* The program as its users drive it: every call comes from an adapter.
\* AdapterNext has the movement commands (stock-in, issue, return, adjust).
\* The commands are run within one second: what they do does not depend on
\* the time.
AdapterNext ==
  \/ \E p \in Procs : CliCommand(p)
  \/ \E p \in Procs : WebTransaction(p)
  \/ \E p \in Procs : WebBadQuantity(p)
  \/ \E p \in Procs : EnsureItem(p)
  \/ \E p \in Procs : GetEmployee(p)
  \/ \E p \in Procs : AdapterLogTransaction(p)
  \/ \E p \in Procs : LogTransactionInsert(p)
  \/ \E p \in Procs : LogTransactionEnsure(p)
  \/ \E p \in Procs : LogTransactionUpdate(p)
  \/ \E p \in Procs : Commit(p)
  \/ \E p \in Procs : Fail(p)
  \/ \E p \in Procs : Return(p)

AdapterSpec == Init /\ [][AdapterNext]_vars

\* The adapters' catalog commands: add-item and add-employee.
CatalogNext ==
  \/ \E p \in Procs : CliAddItem(p)
  \/ \E p \in Procs : WebAddItem(p)
  \/ \E p \in Procs : AdapterAddItem(p)
  \/ \E p \in Procs : CliAddEmployee(p)
  \/ \E p \in Procs : WebAddEmployee(p)
  \/ \E p \in Procs : AdapterAddEmployee(p)
  \/ \E p \in Procs : AddItemUpsert(p)
  \/ \E p \in Procs : AddItemStock(p)
  \/ \E p \in Procs : AddEmployeeUpsert(p)
  \/ \E p \in Procs : Commit(p)
  \/ \E p \in Procs : Fail(p)
  \/ \E p \in Procs : Return(p)
  \/ Tick

CatalogSpec == Init /\ [][CatalogNext]_vars

\* The reports and what they report on: items being added, movements being
\* recorded, and get_status_rows and search_transactions being called.
QueryNext ==
  \/ \E p \in Procs : CallAddItem(p)
  \/ \E p \in Procs : CallLogTransaction(p)
  \/ \E p \in Procs : CallGetStatusRows(p)
  \/ \E p \in Procs : CallSearchTransactions(p)
  \/ \E p \in Procs : AddItemUpsert(p)
  \/ \E p \in Procs : AddItemStock(p)
  \/ \E p \in Procs : LogTransactionInsert(p)
  \/ \E p \in Procs : LogTransactionEnsure(p)
  \/ \E p \in Procs : LogTransactionUpdate(p)
  \/ \E p \in Procs : GetStatusRows(p)
  \/ \E p \in Procs : SearchTransactions(p)
  \/ \E p \in Procs : Commit(p)
  \/ \E p \in Procs : Fail(p)
  \/ \E p \in Procs : Return(p)
  \/ Tick

QuerySpec == Init /\ [][QueryNext]_vars

(***************************************************************************)
(* Properties.                                                             *)
(***************************************************************************)

RECURSIVE SumQuantities(_)
SumQuantities(ts) ==
  IF ts = {} THEN 0
  ELSE LET t == CHOOSE t \in ts : TRUE
       IN t.quantity + SumQuantities(ts \ {t})

TransactionsOf(d, item_id) == {t \in d.transactions : t.item_id = item_id}

ItemIdsOf(d) == {i.id : i \in d.items}
EmployeeIdsOf(d) == {e.id : e \in d.employees}

\* C1: in every reachable state the quantity the status report shows for an
\* item is the sum of the quantities of the transactions recorded for it.
C1_QuantityIsLedgerSum ==
  \A r \in get_status_rows(db) :
    r.quantity = Some(SumQuantities(TransactionsOf(db, r.id)))

\* C1 witness: an item with several movements on record, one of them this
\* call's, while another call has failed.
C1_Witness ==
  \E p, q \in Procs :
    /\ pc[p] = "returned" /\ call[p].op = "log_transaction"
    /\ Cardinality(TransactionsOf(db, call[p].item_id)) >= 2
    /\ \E r \in get_status_rows(db) :
         r.id = call[p].item_id /\ r.quantity # Some(0)
    /\ pc[q] = "raised"

LogTransactionFails(p) ==
  /\ call[p].op = "log_transaction"
  /\ pc[p] \in InTransaction
  /\ pc'[p] = "raised"

\* C2: a log_transaction that fails after its INSERT INTO transactions and
\* before its commit leaves the database as it was: neither its transaction
\* row nor a changed stock level is there.
C2_AtomicOnFailure ==
  [][\A p \in Procs :
       LogTransactionFails(p) =>
         /\ db' = db
         /\ ret[p][1] \notin db'.transactions]_vars

\* C2 witness: a log_transaction has failed between its insert and its commit.
C2_Witness ==
  \E p \in Procs :
    /\ pc[p] = "raised" /\ err[p] = "OperationalError"
    /\ call[p].op = "log_transaction"
    /\ ret[p] # None /\ ret[p][1] \notin db.transactions
    /\ \E i \in db.items : i.id = call[p].item_id

QuantityOf(d, item_id) ==
  LET rows == {s \in d.stock_levels : s.item_id = item_id}
  IN IF rows = {} THEN 0 ELSE (CHOOSE s \in rows : TRUE).quantity

LogTransactionCommits(p) ==
  /\ call[p].op = "log_transaction"
  /\ pc[p] = "commit"
  /\ pc'[p] = "returned"

\* The two calls of the scenario: +3 and -1 on item 1, which stood at 10.
BothReturned ==
  /\ calls = 2
  /\ \A p \in Procs : pc[p] = "returned" /\ call[p].op = "log_transaction"
                      /\ call[p].item_id = 1
  /\ {call[p].quantity : p \in Procs} = {3, -1}
  /\ [id |-> 1, item_id |-> 1, employee_id |-> None, type |-> "stock_in",
      quantity |-> 10, note |-> "", created_at |-> 0] \in db.transactions

\* The write lock has at most one holder, and the holder is a call that is
\* running its transaction (so a call waiting for the lock gets its turn).
LockHeldByWriter ==
  /\ Cardinality(lock) <= 1
  /\ \A p \in Procs : p \in lock <=> pc[p] \in InTransaction

\* C3: concurrent log_transaction calls on one item lose no update: each
\* call that commits adds its row and exactly its delta to what is committed
\* at that moment, whatever the other calls did since it began; a call that
\* finds the database locked waits for the one writer instead of failing; so
\* +3 and -1 on a quantity of 10 always end at 12 with both rows recorded.
C3_NoLostUpdate ==
  /\ []LockHeldByWriter
  /\ [][\A p \in Procs :
          LogTransactionCommits(p) =>
            /\ db'.transactions = db.transactions \cup {ret[p][1]}
            /\ ret[p][1] \notin db.transactions
            /\ \A i \in db.items :
                 QuantityOf(db', i.id) =
                   QuantityOf(db, i.id) +
                     (IF i.id = call[p].item_id THEN call[p].quantity ELSE 0)]_vars
  /\ [](BothReturned =>
          /\ QuantityOf(db, 1) = 12
          /\ Cardinality(db.transactions) = 3
          /\ \A p \in Procs : ret[p][1] \in db.transactions)

\* C3 witness: both calls of the scenario have returned and the item is at 12.
C3_Witness == BothReturned /\ QuantityOf(db, 1) = 12

ItemKey(i) == <<i.name, i.size, i.category>>

AddItemCommits(p) ==
  /\ call[p].op = "add_item"
  /\ pc[p] = "commit"
  /\ pc'[p] = "returned"

\* C4: add_item is keyed by (name, size, category).  No two items ever share
\* the triple.  A call for a triple that exists returns that item's id and
\* changes nothing but its min_stock (nothing at all when min_stock is the
\* same): the stock levels and the transactions stay as they are.  A call for
\* a new triple adds one item.
C4_UpsertItemByKey ==
  /\ [](\A i, j \in db.items : ItemKey(i) = ItemKey(j) => i = j)
  /\ [][\A p \in Procs :
          AddItemCommits(p) =>
            LET c == call[p]
                old == {i \in db.items : ItemKey(i) = <<c.name, c.size, c.category>>}
                new == {i \in db'.items : ItemKey(i) = <<c.name, c.size, c.category>>}
            IN /\ Cardinality(new) = 1
               /\ \A i \in new : i.min_stock = c.min_stock /\ i.id = ret[p][1].id
               /\ db'.items \ new = db.items \ old
               /\ db'.transactions = db.transactions
               /\ db'.employees = db.employees
               /\ old # {} =>
                    /\ {i.id : i \in new} = {i.id : i \in old}
                    /\ db'.stock_levels = db.stock_levels
               /\ old = {} =>
                    /\ ret[p][1].id \notin ItemIdsOf(db)
                    /\ db'.stock_levels = db.stock_levels \cup
                         {[item_id |-> ret[p][1].id, quantity |-> 0]}]_vars

\* C4 witness: add_item has returned for the triple of an item that has stock
\* and a transaction, with another min_stock than the item had.
C4_Witness ==
  \E p \in Procs :
    /\ pc[p] = "returned" /\ call[p].op = "add_item"
    /\ \E i \in db.items :
         /\ ItemKey(i) = <<call[p].name, call[p].size, call[p].category>>
         /\ i.id = ret[p][1].id
         /\ i.id < db.sqlite_sequence["items"]
         /\ i.min_stock = 0
         /\ QuantityOf(db, i.id) = 10
         /\ TransactionsOf(db, i.id) # {}

AddEmployeeCommits(p) ==
  /\ call[p].op = "add_employee"
  /\ pc[p] = "commit"
  /\ pc'[p] = "returned"

\* C5: add_employee upserts by badge.  No two employees ever share a badge
\* that is not None.  A call with a badge that an employee already has sets
\* name and role of that employee, returns it under its id and adds no
\* employee; any other call (no badge, or a badge nobody has) adds one
\* employee under a new id.
C5_UpsertEmployeeByBadge ==
  /\ [](\A e, f \in db.employees :
          (e.badge # None /\ e.badge = f.badge) => e = f)
  /\ [][\A p \in Procs :
          AddEmployeeCommits(p) =>
            LET c == call[p]
                old == {e \in db.employees : c.badge # None /\ e.badge = c.badge}
                row == [id |-> ret[p][1].id, name |-> c.name, role |-> c.role,
                        badge |-> c.badge]
            IN /\ ret[p][1] = row
               /\ db'.employees = (db.employees \ old) \cup {row}
               /\ old # {} => {e.id : e \in old} = {row.id}
               /\ old = {} => row.id \notin EmployeeIdsOf(db)
               /\ db'.items = db.items
               /\ db'.stock_levels = db.stock_levels
               /\ db'.transactions = db.transactions]_vars

\* C5 witness: add_employee has returned for the badge of an employee, who
\* now has the call's name and role and still the old id.
C5_Witness ==
  \E p \in Procs :
    /\ pc[p] = "returned" /\ call[p].op = "add_employee"
    /\ call[p].badge = Some("b1") /\ call[p].name = "Bob"
    /\ db.employees = {[id |-> 1, name |-> "Bob", role |-> "lead",
                        badge |-> Some("b1")]}
    /\ db.sqlite_sequence["employees"] = 2

\* C6: a log_transaction whose type is none of stock_in, issue, return and
\* adjust fails and writes nothing: no call with such a type returns
\* normally, and every recorded transaction has one of the four types.
C6_UnknownTypeRejected ==
  /\ \A p \in Procs :
       (call[p].op = "log_transaction" /\ call[p].ttype \notin TRANSACTION_TYPES)
         => pc[p] # "returned"
  /\ \A t \in db.transactions : t.type \in TRANSACTION_TYPES

LogTransactionRuns(p) ==
  /\ pc[p] = "log_transaction"
  /\ pc'[p] # "log_transaction"

\* C7: a log_transaction whose item_id is the id of no item fails (the
\* foreign key makes the INSERT raise IntegrityError) and changes nothing: no
\* transaction, no stock level.  Every recorded transaction and every stock
\* level belongs to an item that exists.
C7_UnknownItemRejected ==
  /\ [](/\ \A t \in db.transactions : t.item_id \in ItemIdsOf(db)
        /\ \A s \in db.stock_levels : s.item_id \in ItemIdsOf(db))
  /\ [][\A p \in Procs :
          (LogTransactionRuns(p) /\ call[p].item_id \notin ItemIdsOf(db)) =>
            /\ pc'[p] = "raised"
            /\ err'[p] = "IntegrityError"
            /\ db' = db
            /\ lock' = lock]_vars

\* C7 witness: a call for an item id that no item has has raised, while the
\* database holds other items' rows.
C7_Witness ==
  \E p \in Procs :
    /\ pc[p] = "raised" /\ err[p] = "IntegrityError"
    /\ call[p].item_id \notin ItemIdsOf(db)
    /\ call[p].employee_id = None
    /\ db.items # {} /\ db.transactions # {}

\* C8: a log_transaction whose employee_id is the id of no employee fails
\* (IntegrityError) and changes nothing.  Every recorded transaction that
\* has an employee_id has that of an employee that exists.
C8_UnknownEmployeeRejected ==
  /\ [](\A t \in db.transactions :
          t.employee_id # None => t.employee_id[1] \in EmployeeIdsOf(db))
  /\ [][\A p \in Procs :
          (/\ LogTransactionRuns(p)
           /\ call[p].employee_id # None
           /\ call[p].employee_id[1] \notin EmployeeIdsOf(db)) =>
            /\ pc'[p] = "raised"
            /\ err'[p] = "IntegrityError"
            /\ db' = db
            /\ lock' = lock]_vars

\* C8 witness: a call for an existing item and an employee id that no
\* employee has has raised.
C8_Witness ==
  \E p \in Procs :
    /\ pc[p] = "raised" /\ err[p] = "IntegrityError"
    /\ call[p].item_id \in ItemIdsOf(db)
    /\ call[p].employee_id # None
    /\ call[p].employee_id[1] \notin EmployeeIdsOf(db)

\* C9: log_transaction never refuses a movement for the stock it leaves: a
\* call whose item and employee exist gets past its INSERT whatever the
\* quantity on hand, the row it records carries the call's quantity, and
\* when it commits the item's level is the level before plus that quantity,
\* below zero or not.
C9_NegativeStockAllowed ==
  [][\A p \in Procs :
       /\ (LogTransactionRuns(p) /\ pc'[p] = "raised") =>
             ~ForeignKeysHold(db, call[p].item_id, call[p].employee_id)
       /\ (LogTransactionRuns(p) /\ pc'[p] # "raised") =>
             /\ ret'[p][1].quantity = call[p].quantity
             /\ ret'[p][1] \in tx'[p].transactions
       /\ LogTransactionCommits(p) =>
             /\ ret[p][1].quantity = call[p].quantity
             /\ {s.quantity : s \in {r \in db'.stock_levels :
                                       r.item_id = call[p].item_id}} =
                  {QuantityOf(db, call[p].item_id) + call[p].quantity}]_vars

\* C9 witness: a call has taken from an item more than it had: the call has
\* returned, its row is recorded and the level is below zero.
C9_Witness ==
  \E p \in Procs :
    /\ pc[p] = "returned" /\ call[p].op = "log_transaction"
    /\ call[p].quantity < 0
    /\ ret[p][1] \in db.transactions
    /\ QuantityOf(db, call[p].item_id) < 0
    /\ QuantityOf(db, call[p].item_id) - call[p].quantity >= 0

\* The quantity the sign convention asks for, given what the user requested.
ConventionQuantity(ttype, requested) ==
  CASE ttype = "issue" -> -abs(requested)
    [] ttype \in {"stock_in", "return"} -> abs(requested)
    [] ttype = "adjust" -> requested

\* C10: whatever sign the user gave, a movement recorded through the CLI or
\* the web routes has the sign of its type: issue minus the magnitude,
\* stock_in and return the magnitude, adjust the number as given.
C10_SignConvention ==
  /\ \A p \in Procs :
       (/\ frame[p] # NoCall
        /\ frame[p].ttype \in TRANSACTION_TYPES
        /\ pc[p] = "returned") =>
         ret[p][1].quantity =
           ConventionQuantity(frame[p].ttype, frame[p].requested)
  /\ \A t \in db.transactions :
       /\ t.type = "issue" => t.quantity <= 0
       /\ t.type \in {"stock_in", "return"} => t.quantity >= 0

\* C11: of the transactions recorded through the CLI or the web routes,
\* every issue and every return names an employee, and every stock_in and
\* every adjust names none.
C11_EmployeeByType ==
  /\ \A t \in db.transactions :
       /\ t.type \in {"issue", "return"} => t.employee_id # None
       /\ t.type \in {"stock_in", "adjust"} => t.employee_id = None
  /\ \A p \in Procs :
       (/\ frame[p] # NoCall
        /\ frame[p].ttype \in TRANSACTION_TYPES
        /\ pc[p] = "returned") =>
         /\ frame[p].ttype \in {"issue", "return"} =>
              ret[p][1].employee_id # None
         /\ frame[p].ttype \in {"stock_in", "adjust"} =>
              ret[p][1].employee_id = None

\* C12: an add_item whose min_stock is below zero fails and writes nothing:
\* no such call returns normally, and no item has a threshold below zero.
C12_NegativeMinStockRejected ==
  /\ \A p \in Procs :
       (call[p].op = "add_item" /\ call[p].min_stock < 0) =>
         pc[p] # "returned"
  /\ \A i \in db.items : i.min_stock >= 0

\* C13: an add_employee whose name is empty fails and writes nothing: no
\* such call returns normally, and no employee has an empty name.
C13_EmptyNameRejected ==
  /\ \A p \in Procs :
       (call[p].op = "add_employee" /\ call[p].name = "") =>
         pc[p] # "returned"
  /\ \A e \in db.employees : e.name # ""

ResolveItemRuns(p) == pc[p] = "ensure_item" /\ pc'[p] # "ensure_item"

ResolveEmployeeRuns(p) == pc[p] = "get_employee" /\ pc'[p] # "get_employee"

\* C14: ensure_item for a (name, size, category) that no item has exactly,
\* and get_employee for a name that no employee has exactly, raise; a
\* successful one yields an item (employee) with exactly those values; no
\* resolve step changes the database; and a command whose resolution raised
\* has never called log_transaction.
C14_ResolveStrict ==
  /\ [][\A p \in Procs :
          /\ ResolveItemRuns(p) =>
               LET f == frame[p]
                   exact == {i \in db.items : /\ i.name = f.name
                                               /\ i.size = f.size
                                               /\ i.category = f.category}
               IN /\ db' = db /\ lock' = lock /\ tx' = tx
                  /\ IF exact = {}
                       THEN pc'[p] = "raised" /\ err'[p] = "ValueError"
                       ELSE /\ pc'[p] # "raised"
                            /\ frame'[p].item_id \in {i.id : i \in exact}
          /\ ResolveEmployeeRuns(p) =>
               LET f == frame[p]
                   exact == {e \in db.employees : e.name = f.employee}
               IN /\ db' = db /\ lock' = lock /\ tx' = tx
                  /\ IF exact = {}
                       THEN pc'[p] = "raised" /\ err'[p] = "ValueError"
                       ELSE /\ pc'[p] # "raised"
                            /\ frame'[p].employee_id \in
                                 {Some(e.id) : e \in exact}]_vars
  /\ [](\A p \in Procs :
          (pc[p] = "raised" /\ err[p] = "ValueError") => call[p] = NoCall)

\* C14 witness: a command for Shirt in size M has raised on a catalog whose
\* only Shirt is of size L, and the ledger holds what it held before.
C14_Witness ==
  \E p \in Procs :
    /\ pc[p] = "raised" /\ err[p] = "ValueError"
    /\ frame[p].ttype \in TRANSACTION_TYPES
    /\ "name" \in DOMAIN frame[p]
    /\ frame[p].name = "Shirt" /\ frame[p].size = "M"
    /\ {<<i.name, i.size>> : i \in db.items} = {<<"Shirt", "L">>}
    /\ db.transactions = StockedDB.transactions

GetStatusRowsReturns(p) ==
  pc[p] = "get_status_rows" /\ pc'[p] = "returned"

\* C15: get_status_rows returns one row for each item and no other row; the
\* row's quantity is the quantity of the item's stock level (0 for an item
\* without one), and the row is flagged exactly when that quantity is below
\* the item's min_stock: not when it is equal, not when it is above.
C15_StatusRows ==
  [][\A p \in Procs :
       GetStatusRowsReturns(p) =>
         LET rows == ret'[p][1] IN
           /\ Cardinality(rows) = Cardinality(db.items)
           /\ \A i \in db.items :
                \E r \in rows :
                  LET levels == {s \in db.stock_levels : s.item_id = i.id}
                      quantity == IF levels = {} THEN 0
                                  ELSE (CHOOSE s \in levels : TRUE).quantity
                  IN /\ r.id = i.id
                     /\ r.name = i.name /\ r.size = i.size
                     /\ r.category = i.category
                     /\ r.min_stock = i.min_stock
                     /\ r.quantity = Some(quantity)
                     /\ r.alert <=> quantity < i.min_stock]_vars

\* C15 witness: a report has returned a row that is flagged (10 of 20) next
\* to a row whose quantity equals its threshold and is not flagged.
C15_Witness ==
  \E p \in Procs :
    /\ pc[p] = "returned" /\ call[p].op = "get_status_rows"
    /\ \E r \in ret[p][1] :
         r.alert /\ r.quantity = Some(10) /\ r.min_stock = 20
    /\ \E r \in ret[p][1] :
         ~r.alert /\ r.quantity = Some(r.min_stock)

QueryRuns(p) ==
  /\ call'[p].op \in {"get_status_rows", "search_transactions"}
  /\ pc'[p] # pc[p]

\* C16: get_status_rows and search_transactions write nothing: from the
\* call to the return of either, whatever its filters, no step of it changes
\* or adds an item, an employee, a stock level or a transaction, in the file
\* or in any connection's open transaction.
C16_QueriesReadOnly ==
  [][\A p \in Procs :
       QueryRuns(p) =>
         /\ db' = db
         /\ lock' = lock
         /\ tx' = tx]_vars

\* C16 witness: on a database that holds an item, its stock level, an
\* employee and a transaction, a status report and a filtered history have
\* both returned rows.
C16_Witness ==
  \E p, q \in Procs :
    /\ pc[p] = "returned" /\ call[p].op = "get_status_rows"
    /\ ret[p][1] # {}
    /\ pc[q] = "returned" /\ call[q].op = "search_transactions"
    /\ call[q].name # None
    /\ ret[q][1] # <<>>
    /\ db = StockedDB

SearchTransactionsReturns(p) ==
  pc[p] = "search_transactions" /\ pc'[p] = "returned"

\* text contains part as a run of consecutive characters, letters compared
\* without regard to case.
Contains(text, part) ==
  \E k \in 0..(Len(text) - Len(part)) :
    \A n \in 1..Len(part) : lower(text[k + n]) = lower(part[n])

ItemNameOf(d, t) == (CHOOSE i \in d.items : i.id = t.item_id).name

EmployeeNameOf(d, t) ==
  IF t.employee_id = None THEN ""
  ELSE (CHOOSE e \in d.employees : e.id = t.employee_id[1]).name

\* C17: search_transactions returns, once each, exactly the transactions
\* whose item's name contains the name filter (when one is given) and whose
\* employee's name contains the employee filter (when one is given): all of
\* them when no filter is given.  Each row carries the name of the
\* transaction's employee, or "" when it has none.
C17_HistoryFilter ==
  [][\A p \in Procs :
       SearchTransactionsReturns(p) =>
         LET l == ret'[p][1]
             name == call[p].name
             employee == call[p].employee
             expected ==
               {t \in db.transactions :
                  /\ name # None =>
                       Contains(Chars(ItemNameOf(db, t)), Chars(name[1]))
                  /\ employee # None =>
                       /\ t.employee_id # None
                       /\ Contains(Chars(EmployeeNameOf(db, t)),
                                   Chars(employee[1]))}
         IN /\ Len(l) = Cardinality(expected)
            /\ {l[k].id : k \in 1..Len(l)} = {t.id : t \in expected}
            /\ \A k \in 1..Len(l) :
                 \E t \in expected :
                   t.id = l[k].id /\ l[k].employee = EmployeeNameOf(db, t)]_vars

\* C18: search_transactions lists the newest first: of any two rows, the
\* one recorded later (the greater id: ids are given in the order of
\* recording) comes before the other, also when both carry the same
\* created_at.
C18_HistoryNewestFirst ==
  [][\A p \in Procs :
       SearchTransactionsReturns(p) =>
         LET l == ret'[p][1] IN
           \A m, n \in 1..Len(l) : m < n => l[m].id > l[n].id]_vars

\* C19: the ledger only grows.  Whatever runs (init_db again, add_item,
\* add_employee, log_transaction, a failure), every recorded transaction is
\* still there after the step with every field as it was, a step adds a
\* transaction only when a log_transaction commits and then exactly one,
\* and no item and no employee goes away.
C19_LedgerAppendOnly ==
  [][/\ db.transactions \subseteq db'.transactions
     /\ ItemIdsOf(db) \subseteq ItemIdsOf(db')
     /\ EmployeeIdsOf(db) \subseteq EmployeeIdsOf(db')
     /\ \A p \in Procs :
          LogTransactionCommits(p) =>
            /\ Cardinality(db'.transactions) =
                 Cardinality(db.transactions) + 1
            /\ db'.transactions \ db.transactions = {ret[p][1]}
     /\ (\A p \in Procs : ~LogTransactionCommits(p)) =>
          db'.transactions = db.transactions]_vars

\* C19 witness: init_db has been run again on a ledger to which a movement
\* was added, and both the old and the new transaction are in it.
C19_Witness ==
  \E p, q \in Procs :
    /\ pc[p] = "returned" /\ call[p].op = "init_db"
    /\ pc[q] = "returned" /\ call[q].op = "log_transaction"
    /\ StockedDB.transactions \subseteq db.transactions
    /\ ret[q][1] \in db.transactions
    /\ Cardinality(db.transactions) = 2

StockLevelsOf(d, item_id) == {s \in d.stock_levels : s.item_id = item_id}

AddItemFails(p) ==
  /\ call[p].op = "add_item"
  /\ pc[p] \in InTransaction
  /\ pc'[p] = "raised"

\* C20: every item has exactly one stock level.  add_item commits a new
\* item together with its level of 0, and an add_item that fails leaves
\* neither; add_item for an item that exists leaves its one level as it is;
\* a log_transaction that commits leaves each item with the one level it
\* had, changing only the quantity of the item it names.
C20_OneStockLevelPerItem ==
  /\ [](\A i \in db.items : Cardinality(StockLevelsOf(db, i.id)) = 1)
  /\ [][\A p \in Procs :
          /\ AddItemCommits(p) =>
               LET id == ret[p][1].id IN
                 /\ Cardinality(StockLevelsOf(db', id)) = 1
                 /\ IF id \in ItemIdsOf(db)
                      THEN StockLevelsOf(db', id) = StockLevelsOf(db, id)
                      ELSE StockLevelsOf(db', id) =
                             {[item_id |-> id, quantity |-> 0]}
          /\ AddItemFails(p) =>
               /\ db'.items = db.items
               /\ db'.stock_levels = db.stock_levels
          /\ LogTransactionCommits(p) =>
               /\ \A i \in db'.items :
                    Cardinality(StockLevelsOf(db', i.id)) = 1
               /\ \A i \in db.items :
                    i.id # call[p].item_id =>
                      StockLevelsOf(db', i.id) = StockLevelsOf(db, i.id)]_vars

\* C20 witness: add_item has returned for an item that had a level other
\* than 0, and the item has that one level still.
C20_Witness ==
  \E p \in Procs :
    /\ pc[p] = "returned" /\ call[p].op = "add_item"
    /\ ret[p][1].id < db.sqlite_sequence["items"]
    /\ \E s \in db.stock_levels :
         /\ s.quantity # 0
         /\ StockLevelsOf(db, ret[p][1].id) = {s}

\* The levels of d are the sums of its transactions.
Consistent(d) ==
  \A i \in d.items :
    QuantityOf(d, i.id) = SumQuantities(TransactionsOf(d, i.id))

\* The rows a history lists for item i.
RowsOf(l, i) ==
  {l[k] : k \in {n \in 1..Len(l) : <<l[n].name, l[n].size, l[n].category>>
                                    = ItemKey(i)}}

\* C21: a get_status_rows or search_transactions that runs while a
\* log_transaction is under way never sees the transaction row without the
\* level's update: what a reader reads is at every moment a database whose
\* levels are the sums of its transactions; the quantity a status row
\* reports is the sum of the item's committed transactions, and an
\* unfiltered history lists the committed transactions, whose quantities
\* add up to the committed level of each item.
C21_ReaderIsolation ==
  /\ [](\A p \in Procs : Consistent(ReadView(p)))
  /\ [][\A p \in Procs :
          /\ GetStatusRowsReturns(p) =>
               \A r \in ret'[p][1] :
                 r.quantity =
                   Some(SumQuantities(TransactionsOf(db, r.id)))
          /\ (/\ SearchTransactionsReturns(p)
              /\ call[p].name = None /\ call[p].employee = None) =>
               LET l == ret'[p][1] IN
                 /\ {l[k].id : k \in 1..Len(l)} =
                      {t.id : t \in db.transactions}
                 /\ \A i \in db.items :
                      SumQuantities(RowsOf(l, i)) = QuantityOf(db, i.id)]_vars

\* C21 witness: a status report has returned the committed level of an item
\* while the other process has inserted a transaction for that item and not
\* yet updated the level.
C21_Witness ==
  \E p, q \in Procs :
    /\ pc[q] = "lt_update"
    /\ ret[q][1] \in tx[q].transactions
    /\ ret[q][1] \notin db.transactions
    /\ ~Consistent(tx[q])
    /\ pc[p] = "returned" /\ call[p].op = "get_status_rows"
    /\ \E r \in ret[p][1] :
         /\ r.id = call[q].item_id
         /\ r.quantity = Some(QuantityOf(db, r.id))
         /\ r.quantity = Some(SumQuantities(TransactionsOf(db, r.id)))

====
